---- MODULE Spec2Model ----
(***************************************************************************)
(* ps3rover20.py: PS3Rover (a Rover20 subclass driven by a PS3 controller) *)
(* and main().  Three threads of control are modelled:                     *)
(*   - the main thread: main() (construction, idle loop, finally block),   *)
(*     interrupted by SIGINT;                                              *)
(*   - the vehicle's media thread, which calls processVideo and            *)
(*     processAudio while the connection is open;                          *)
(*   - the garbage collector, which may run __del__.                       *)
(* The clock counts quarter seconds, axis readings count hundredths.       *)
(***************************************************************************)
EXTENDS Integers, Sequences, FiniteSets, TLC

\* ---------------------------------------------------------------- constants
BUTTON_LIGHTS == 3
BUTTON_STEALTH == 1
BUTTON_CAMERA_UP == 0
BUTTON_CAMERA_DOWN == 2
\* 0.5 s in quarter seconds
MIN_BUTTON_LAG_SEC == 2
\* 0.01 in hundredths
MIN_AXIS_ABSVAL == 1
\* the ESC key code tested by processVideo
ESC == 27

\* ------------------------------------------------------------------- bounds
\* time.time() at program start, in quarter seconds after last_button_time's
\* initial 0: the epoch clock is far more than MIN_BUTTON_LAG_SEC past 0
StartTime == 3
\* the clock is followed for this many quarter seconds after StartTime
MaxElapsed == 3
\* lines kept of rover20.pcm
MaxPcmLines == 2
\* largest PCM sample value of an audio batch
MaxSample == 2
\* counters of calls stop counting here
MaxCount == 3
\* quarter seconds between the two time.time() reads of one processVideo
MaxJitter == 1

Controls == {"lights", "stealth"}
\* controller.get_axis readings, in hundredths, around the dead zone
AxisReadings == {-2, -1, 0, 1, 2}
\* results of cv2.waitKey(1): no key (-1), ESC, ESC with a modifier bit, 'q'
KeyCodes == {-1, 27, 283, 113}
\* what cv2.imdecode makes of the frame: an image, None, or cv2.error
Frames == {"image", "none", "error"}

Cap(n) == IF n < MaxCount THEN n + 1 ELSE MaxCount

VARIABLES
    \* main()
    pc,                 \* position of the main thread
    rover,              \* main's local `rover` is the PS3Rover object
    handler,            \* _signal_handler is installed for SIGINT
    pending,            \* how main leaves once the finally block is done
    result,             \* how main has left
    \* PS3Rover
    vehicle,            \* the Rover20 connection: "unopened", "open", "closed"
    quit,
    lights_are_on,
    stealth_is_on,
    last_button_time,
    video_enabled,
    pcm_file,           \* "unset", "none" (open failed), "open", "closed"
    pcm_lines,          \* content of rover20.pcm
    finalized,          \* __del__ has run
    \* environment
    now,                \* time.time()
    calls,              \* the calls made by the latest processVideo
    raisedOut,          \* the latest processVideo raised
    \* history
    closeCalls,         \* rover.close() calls
    cleanupCalls,       \* cleanup() calls
    destroyCalls,       \* cv2.destroyAllWindows() calls
    interrupts,         \* SIGINTs delivered
    everRaised,         \* an on/off routine has raised
    quitInIdle,         \* a video tick set quit while main was in the idle loop
    intInIdle,          \* a SIGINT arrived while main was in the idle loop
    failure,            \* start-up failed: "none", "connect", "joystick"
    seen,               \* the inputs the latest processVideo was given
    audio,              \* the history of processAudio
    watch,              \* the control whose history is kept
    hist                \* the history of the watched control

vars == <<pc, rover, handler, pending, result, vehicle, quit, lights_are_on,
          stealth_is_on, last_button_time, video_enabled, pcm_file, pcm_lines,
          finalized, now, calls, raisedOut, closeCalls, cleanupCalls,
          destroyCalls, interrupts, everRaised, quitInIdle, intInIdle,
          failure, seen, audio, watch, hist>>

mainVars == <<pc, rover, handler, pending, result>>
toggleVars == <<lights_are_on, stealth_is_on, last_button_time>>

\* ------------------------------------------------------- pure functions
\* _get_axis_value, given the reading controller.get_axis(index)
get_axis_value_Closed(raw) ==
    LET value == -raw
    IN  IF value >= MIN_AXIS_ABSVAL THEN 1
        ELSE IF value <= -MIN_AXIS_ABSVAL THEN -1
        ELSE 0

get_axis_value(raw) ==
    LET value == -raw
    IN  IF value > MIN_AXIS_ABSVAL THEN 1
        ELSE IF value < -MIN_AXIS_ABSVAL THEN -1
        ELSE 0

\* the debounce test with >= for >
Qualifies_AtLeast(held, current_time, last) ==
    held /\ (current_time - last) >= MIN_BUTTON_LAG_SEC

\* the debounce test without the time test
Qualifies_NoLag(held, current_time, last) == held

\* the debounce test of _check_button: the button is held and more than
\* MIN_BUTTON_LAG_SEC has passed since last_button_time
Qualifies(held, current_time, last) ==
    held /\ (current_time - last) > MIN_BUTTON_LAG_SEC

\* _check_button calling on_routine on either branch
check_button_OnOnly(flag, held, current_time, last, fails) ==
    IF Qualifies(held, current_time, last)
    THEN [ret    |-> IF fails THEN flag ELSE ~flag,
          last   |-> current_time,
          call   |-> "on",
          raised |-> fails]
    ELSE [ret |-> flag, last |-> last, call |-> "none", raised |-> FALSE]

\* _check_button turning the flag off without calling off_routine
check_button_NoOff(flag, held, current_time, last, fails) ==
    IF Qualifies(held, current_time, last)
    THEN [ret    |-> IF fails /\ ~flag THEN flag ELSE ~flag,
          last   |-> current_time,
          call   |-> IF flag THEN "none" ELSE "on",
          raised |-> fails /\ ~flag]
    ELSE [ret |-> flag, last |-> last, call |-> "none", raised |-> FALSE]

\* _check_button(flag, button_id, on_routine, off_routine), given the button
\* reading, the time.time() it reads and whether the routine it calls raises.
\*   ret:    the value returned (the flag passed in when the routine raises:
\*           the caller's assignment never happens)
\*   last:   self.last_button_time afterwards
\*   call:   the routine called, "on", "off" or "none"
\*   raised: the routine raised
\* last_button_time set once the routine has returned
check_button_LateStamp(flag, held, current_time, last, fails) ==
    IF Qualifies(held, current_time, last)
    THEN [ret |-> IF fails THEN flag ELSE ~flag,
          last |-> IF fails THEN last ELSE current_time,
          call |-> IF flag THEN "off" ELSE "on", raised |-> fails]
    ELSE [ret |-> flag, last |-> last, call |-> "none", raised |-> FALSE]

\* last_button_time set at every evaluation that finds the button held
check_button_Stamps(flag, held, current_time, last, fails) ==
    IF Qualifies(held, current_time, last)
    THEN [ret |-> IF fails THEN flag ELSE ~flag, last |-> current_time,
          call |-> IF flag THEN "off" ELSE "on", raised |-> fails]
    ELSE [ret |-> flag, last |-> IF held THEN current_time ELSE last,
          call |-> "none", raised |-> FALSE]

check_button(flag, held, current_time, last, fails) ==
    IF Qualifies(held, current_time, last)
    THEN [ret    |-> IF fails THEN flag ELSE ~flag,
          last   |-> current_time,
          call   |-> IF flag THEN "off" ELSE "on",
          raised |-> fails]
    ELSE [ret |-> flag, last |-> last, call |-> "none", raised |-> FALSE]

\* the camera command of processVideo from the two camera buttons
CameraDirection_DownFirst(up, down) ==
    IF down THEN -1 ELSE IF up THEN 1 ELSE 0

CameraDirection(up, down) ==
    IF up THEN 1 ELSE IF down THEN -1 ELSE 0

\* key = cv2.waitKey(1) & 0xFF
KeyByte(raw) == raw % 256

\* self.quit assigned the result of the key test
QuitAfterKey_Assigned(q, raw) == KeyByte(raw) = ESC

\* self.quit after the display step saw `raw` from cv2.waitKey
\* any key pressed in the window sets quit
QuitAfterKey_AnyKey(q, raw) == IF raw # -1 THEN TRUE ELSE q

QuitAfterKey(q, raw) == IF KeyByte(raw) = ESC THEN TRUE ELSE q

\* a call into the vehicle collaborator or into cv2
Call(f, a) == [f |-> f, a |-> a]

RoutineName(c, call) ==
    IF c = "lights"
    THEN (IF call = "on" THEN "turnLightsOn" ELSE "turnLightsOff")
    ELSE (IF call = "on" THEN "turnStealthOn" ELSE "turnStealthOff")

\* the calls one _check_button evaluation makes
ToggleCalls(c, r) ==
    IF r.call = "none" THEN <<>> ELSE <<Call(RoutineName(c, r.call), <<>>)>>

\* the display step of processVideo: the cv2 calls made
\* setTreads called before the camera is moved
DriveCalls_TreadsFirst(up, down, a1, a3) ==
    <<Call("setTreads", <<get_axis_value(a1), get_axis_value(a3)>>),
      Call("moveCameraVertical", <<CameraDirection(up, down)>>)>>

\* processVideo, lines 135-144: the camera moved, then the treads set
DriveCalls(up, down, a1, a3) ==
    <<Call("moveCameraVertical", <<CameraDirection(up, down)>>),
      Call("setTreads", <<get_axis_value(a1), get_axis_value(a3)>>)>>

DisplayCalls_Always(frame) ==
    IF video_enabled
    THEN <<Call("imshow", <<>>), Call("waitKey", <<1>>)>>
    ELSE <<>>

DisplayCalls(frame) ==
    IF video_enabled /\ frame = "image"
    THEN <<Call("imshow", <<>>), Call("waitKey", <<1>>)>>
    ELSE <<>>

\* main's `except RuntimeError` had it no return: main falls through to
\* `return 0`
OnRuntimeError_FallsThrough == "ret0"

\* main, lines 230-232: what `except RuntimeError` makes main do
OnRuntimeError == "ret1"

\* main, lines 235-237: what `except Exception` makes main do
OnException == "ret1"

\* the exit status of the process from the way main has left: sys.exit(main())
\* passes on the value returned, SystemExit carries the 0 of sys.exit(0), an
\* uncaught KeyboardInterrupt ends the process with a non-zero status
ExitStatus(r) ==
    IF r = "ret0" THEN 0
    ELSE IF r = "ret1" THEN 1
    ELSE IF r = "sysexit" THEN 0
    ELSE 1

\* _signal_handler finding the PS3Rover that main holds
HandlerSeesRover_Found == rover

\* frame.f_globals.get('rover') in _signal_handler: `rover` is a local of
\* main(), never a global of the module, so the lookup yields None
HandlerSeesRover == FALSE

\* the finally block with its test inverted
FinallyHasRover_Inverted == ~rover

\* `if rover:` in main's finally block
FinallyHasRover == rover

\* ------------------------------------------------------------- history
\* The history of the _check_button evaluations of one control, the one
\* `watch` names:
\*   held:      its button was held at its latest evaluation
\*   first:     the time of the first evaluation of the hold in progress
\*   lastPress: the time of the latest evaluation that saw the button held
\*   pressGap:  the time between the latest two such evaluations
\*   spaced:    each evaluation of the hold in progress came less than
\*              MIN_BUTTON_LAG_SEC after the one before
\*   holdFlips, holdActs: flips of the flag and calls of its routines during
\*              the hold in progress
\*   presses:   evaluations that saw the button held (up to MaxCount)
\*   singles:   no hold has lasted for more than one evaluation
\*   due:       the latest evaluation saw the button held more than
\*              MIN_BUTTON_LAG_SEC after the control's latest flip
\*   flips, onCalls, offCalls: flips of the flag, calls of its routines
\*   lastFlip:  the time of the latest flip
\*   cmd:       the latest command the vehicle took, "on", "off" or "none"
\*   otherPressed: a tick has seen the other control's button held
\*   quiet:     the latest evaluation saw the button not held, or held no
\*              more than MIN_BUTTON_LAG_SEC after last_button_time
\*   kept:      it returned the flag as it was, left last_button_time as it
\*              was and called no routine
\*   raised:    the routine it called raised
NoHistory ==
    [held |-> FALSE, first |-> 0, lastPress |-> 0, pressGap |-> 0,
     spaced |-> TRUE, holdFlips |-> 0, holdActs |-> 0,
     presses |-> 0, singles |-> TRUE, due |-> FALSE,
     flips |-> 0, onCalls |-> 0, offCalls |-> 0,
     lastFlip |-> 0, cmd |-> "none", otherPressed |-> FALSE,
     quiet |-> FALSE, kept |-> FALSE, raised |-> FALSE]

Bump(n, b) == IF b THEN Cap(n) ELSE n

\* the history after one evaluation of the watched control at time t with
\* result r, the flag having been `flag` and last_button_time `last` before
Evaluated(h, flag, held, t, last, r) ==
    LET flipped == r.ret # flag
        acted   == r.call # "none"
        cont    == h.held
    IN  [h EXCEPT
         !.held      = held,
         !.first     = IF ~held THEN 0 ELSE IF cont THEN @ ELSE t,
         !.lastPress = IF held THEN t ELSE @,
         !.pressGap  = IF held /\ h.presses > 0 THEN t - h.lastPress ELSE @,
         !.spaced    = IF held /\ cont
                       THEN @ /\ (t - h.lastPress < MIN_BUTTON_LAG_SEC)
                       ELSE TRUE,
         !.holdFlips = IF ~held THEN 0 ELSE Bump(IF cont THEN @ ELSE 0, flipped),
         !.holdActs  = IF ~held THEN 0 ELSE Bump(IF cont THEN @ ELSE 0, acted),
         !.presses   = Bump(@, held),
         !.singles   = @ /\ ~(held /\ cont),
         !.due       = held /\ (t - h.lastFlip) > MIN_BUTTON_LAG_SEC,
         !.flips     = IF flipped THEN @ + 1 ELSE @,
         !.onCalls   = IF r.call = "on" THEN @ + 1 ELSE @,
         !.offCalls  = IF r.call = "off" THEN @ + 1 ELSE @,
         !.lastFlip  = IF flipped THEN t ELSE @,
         !.cmd       = IF acted /\ ~r.raised THEN r.call ELSE @,
         !.quiet     = ~held \/ t - last <= MIN_BUTTON_LAG_SEC,
         !.kept      = r.ret = flag /\ r.last = last /\ ~acted,
         !.raised    = r.raised]

\* the history after a tick saw the other control's button as `held`
OtherSeen(h, held) == [h EXCEPT !.otherPressed = @ \/ held]

\* the inputs of one processVideo: the button and axis readings, what
\* imdecode makes of the frame, what waitKey returns
Snapshot(lb, sb, up, down, a1, a3, frame, key) ==
    [lights |-> lb, stealth |-> sb, up |-> up, down |-> down,
     axis1 |-> a1, axis3 |-> a3, frame |-> frame, key |-> key]

NoSnapshot == Snapshot(FALSE, FALSE, FALSE, FALSE, 0, 0, "none", -1)

\* The history of processAudio:
\*   arrived: the samples of the batches that arrived while the capture file
\*            was open, in order
\*   failed:  a write of one of them raised IOError
\*   raised:  the latest processAudio let an exception out
NoAudio == [arrived |-> <<>>, failed |-> FALSE, raised |-> FALSE]

\* ----------------------------------------------------------------- Init
Init ==
    /\ pc = "start"
    /\ rover = FALSE
    /\ handler = FALSE
    /\ pending = "none"
    /\ result = "none"
    /\ vehicle = "unopened"
    /\ quit = FALSE
    /\ lights_are_on = FALSE
    /\ stealth_is_on = FALSE
    /\ last_button_time = 0
    /\ video_enabled = FALSE
    /\ pcm_file = "unset"
    /\ pcm_lines = <<>>
    /\ finalized = FALSE
    /\ now = StartTime
    /\ calls = <<>>
    /\ raisedOut = FALSE
    /\ closeCalls = 0
    /\ cleanupCalls = 0
    /\ destroyCalls = 0
    /\ interrupts = 0
    /\ everRaised = FALSE
    /\ quitInIdle = FALSE
    /\ intInIdle = FALSE
    /\ failure = "none"
    /\ seen = NoSnapshot
    /\ audio = NoAudio
    /\ watch \in Controls
    /\ hist = NoHistory

\* --------------------------------------------------------- media thread
\* the vehicle's media thread delivers frames and audio to a constructed
\* PS3Rover while the connection is open
MediaActive == vehicle = "open" /\ pcm_file # "unset"

\* processVideo.  lb, sb, up, down: the four button readings; a1, a3: the axis
\* readings; jitter: the time between the two time.time() reads; failL, failS:
\* the lights/stealth routine raises if called; frame: what imdecode makes of
\* jpegbytes; key: what waitKey returns.
processVideo(lb, sb, up, down, a1, a3, jitter, failL, failS, frame, key) ==
    /\ MediaActive
    /\ now + jitter <= StartTime + MaxElapsed
    /\ seen' = Snapshot(lb, sb, up, down, a1, a3, frame, key)
    /\ LET t1 == now
           L  == check_button(lights_are_on, lb, t1, last_button_time, failL)
           t2 == now + jitter
           S  == check_button(stealth_is_on, sb, t2, L.last, failS)
           hL == IF watch = "lights"
                 THEN Evaluated(OtherSeen(hist, sb), lights_are_on, lb, t1,
                                last_button_time, L)
                 ELSE OtherSeen(hist, lb)
           hS == IF watch = "stealth"
                 THEN Evaluated(hL, stealth_is_on, sb, t2, L.last, S)
                 ELSE hL
           drive == DriveCalls(up, down, a1, a3)
       IN  IF L.raised
           THEN \* turnLightsOn/Off raised: nothing after line 124 runs
                /\ last_button_time' = L.last
                /\ calls' = ToggleCalls("lights", L)
                /\ hist' = hL
                /\ now' = now
                /\ raisedOut' = TRUE
                /\ everRaised' = TRUE
                /\ UNCHANGED <<lights_are_on, stealth_is_on, quit, quitInIdle>>
           ELSE IF S.raised
           THEN \* turnStealthOn/Off raised: nothing after line 130 runs
                /\ lights_are_on' = L.ret
                /\ last_button_time' = S.last
                /\ calls' = ToggleCalls("lights", L) \o ToggleCalls("stealth", S)
                /\ hist' = hS
                /\ now' = t2
                /\ raisedOut' = TRUE
                /\ everRaised' = TRUE
                /\ UNCHANGED <<stealth_is_on, quit, quitInIdle>>
           ELSE /\ lights_are_on' = L.ret
                /\ stealth_is_on' = S.ret
                /\ last_button_time' = S.last
                /\ calls' = ToggleCalls("lights", L) \o ToggleCalls("stealth", S)
                            \o drive \o DisplayCalls(frame)
                /\ hist' = hS
                /\ now' = t2
                /\ raisedOut' = FALSE
                /\ quit' = IF video_enabled /\ frame = "image"
                           THEN QuitAfterKey(quit, key) ELSE quit
                /\ quitInIdle' = (quitInIdle \/ (quit' /\ ~quit /\ pc = "loop"))
                /\ UNCHANGED everRaised
    /\ UNCHANGED <<mainVars, vehicle, video_enabled, pcm_file, pcm_lines,
                   finalized, closeCalls, cleanupCalls, destroyCalls,
                   interrupts, intInIdle, failure, audio, watch>>

\* a write of the batch raises IOError
WriteFails(samples, failAt) == failAt > 0 /\ failAt <= Len(samples)

\* the samples of a batch written last to first
Written_Reversed(samples, failAt) ==
    [i \in 1..Len(samples) |-> ToString(samples[Len(samples) + 1 - i])]

\* the lines processAudio writes for a batch whose write number failAt raises
\* IOError (0: none does)
Written(samples, failAt) ==
    LET n == IF failAt = 0 \/ failAt > Len(samples)
             THEN Len(samples) ELSE failAt - 1
    IN  [i \in 1..n |-> ToString(samples[i])]

\* processAudio
processAudio(samples, failAt) ==
    /\ MediaActive
    /\ Len(audio.arrived) + Len(samples) <= MaxPcmLines
    /\ IF pcm_file = "open"
       THEN /\ pcm_lines' = pcm_lines \o Written(samples, failAt)
            /\ audio' = [arrived |-> audio.arrived \o samples,
                         failed  |-> audio.failed
                                        \/ WriteFails(samples, failAt),
                         raised  |-> FALSE]
       ELSE IF pcm_file = "closed" /\ samples # <<>>
       THEN \* write on a closed file: ValueError, which is no IOError
            /\ audio' = [audio EXCEPT !.raised = TRUE]
            /\ UNCHANGED pcm_lines
       ELSE /\ audio' = [audio EXCEPT !.raised = FALSE]
            /\ UNCHANGED pcm_lines
    /\ UNCHANGED <<mainVars, vehicle, quit, toggleVars, video_enabled, pcm_file,
                   finalized, now, calls, raisedOut, closeCalls, cleanupCalls,
                   destroyCalls, interrupts, everRaised, quitInIdle, intInIdle,
                   failure, seen, watch, hist>>

\* time passes
ClockAdvance ==
    /\ now < StartTime + MaxElapsed
    /\ now' = now + 1
    /\ UNCHANGED <<mainVars, vehicle, quit, toggleVars, video_enabled, pcm_file,
                   pcm_lines, finalized, calls, raisedOut, closeCalls,
                   cleanupCalls, destroyCalls, interrupts, everRaised,
                   quitInIdle, intInIdle, failure, seen, audio, watch, hist>>

\* ---------------------------------------------------------- main thread
\* cleanup(): the capture file closed (closing a closed file does nothing),
\* the windows destroyed
cleanup ==
    /\ cleanupCalls' = Cap(cleanupCalls)
    /\ IF pcm_file = "unset"
       THEN \* self.pcm_file was never assigned: AttributeError at line 195
            UNCHANGED <<pcm_file, destroyCalls>>
       ELSE /\ pcm_file' = IF pcm_file = "open" THEN "closed" ELSE pcm_file
            /\ destroyCalls' = Bump(destroyCalls, video_enabled)

\* Rover20.close()
close ==
    /\ vehicle' = "closed"
    /\ closeCalls' = Cap(closeCalls)

\* PS3Rover.__init__, line 62: super().__init__() opens the connection to the
\* vehicle, or raises
SuperInit(connects) ==
    /\ pc = "start"
    /\ IF connects
       THEN /\ pc' = "ctor"
            /\ vehicle' = "open"
            /\ UNCHANGED <<pending, failure>>
       ELSE \* except Exception
            /\ pc' = "finally"
            /\ pending' = OnException
            /\ failure' = "connect"
            /\ UNCHANGED vehicle
    /\ UNCHANGED <<rover, handler, result, quit, toggleVars, video_enabled,
                   pcm_file, pcm_lines, finalized, now, calls, raisedOut,
                   closeCalls, cleanupCalls, destroyCalls, interrupts,
                   everRaised, quitInIdle, intInIdle, seen, audio, watch, hist>>

\* PS3Rover.__init__, lines 63-97, and the assignment of line 213.
\* joystick: pygame.joystick.get_count() > 0; window: cv2 is there and
\* namedWindow succeeds; file: open('rover20.pcm', 'w') succeeds
InitRest(joystick, window, file) ==
    /\ pc = "ctor"
    /\ IF joystick
       THEN /\ pc' = "banner"
            /\ rover' = TRUE
            /\ quit' = FALSE
            /\ lights_are_on' = FALSE
            /\ stealth_is_on' = FALSE
            /\ last_button_time' = 0
            /\ video_enabled' = window
            /\ pcm_file' = IF file THEN "open" ELSE "none"
            /\ UNCHANGED <<pending, failure>>
       ELSE \* RuntimeError; except RuntimeError
            /\ pc' = "finally"
            /\ pending' = OnRuntimeError
            /\ failure' = "joystick"
            /\ quit' = FALSE
            /\ UNCHANGED <<rover, toggleVars, video_enabled, pcm_file>>
    /\ UNCHANGED <<handler, result, vehicle, pcm_lines, finalized, now, calls,
                   raisedOut, closeCalls, cleanupCalls, destroyCalls,
                   interrupts, everRaised, quitInIdle, intInIdle, seen, audio,
                   watch, hist>>

\* main, lines 214-224: the banner, then signal.signal(SIGINT, _signal_handler)
InstallHandler ==
    /\ pc = "banner"
    /\ pc' = "loop"
    /\ handler' = TRUE
    /\ UNCHANGED <<rover, pending, result, vehicle, quit, toggleVars,
                   video_enabled, pcm_file, pcm_lines, finalized, now, calls,
                   raisedOut, closeCalls, cleanupCalls, destroyCalls,
                   interrupts, everRaised, quitInIdle, intInIdle,
                   failure, seen, audio, watch, hist>>

\* main, lines 227-228: one test of `while not rover.quit`
IdleLoop ==
    /\ pc = "loop"
    /\ IF quit
       THEN /\ pc' = "finally"
            /\ pending' = "ret0"
       ELSE \* time.sleep(0.01)
            UNCHANGED <<pc, pending>>
    /\ UNCHANGED <<rover, handler, result, vehicle, quit, toggleVars,
                   video_enabled, pcm_file, pcm_lines, finalized, now, calls,
                   raisedOut, closeCalls, cleanupCalls, destroyCalls,
                   interrupts, everRaised, quitInIdle, intInIdle,
                   failure, seen, audio, watch, hist>>

\* main, lines 238-241: the finally block up to rover.cleanup()
FinallyCleanup ==
    /\ pc = "finally"
    /\ IF FinallyHasRover
       THEN /\ cleanup
            /\ pc' = "closing"
            /\ UNCHANGED result
       ELSE \* nothing to clean up: main leaves
            /\ pc' = "exit"
            /\ result' = pending
            /\ UNCHANGED <<cleanupCalls, pcm_file, destroyCalls>>
    /\ UNCHANGED <<rover, handler, pending, vehicle, quit, toggleVars,
                   video_enabled, pcm_lines, finalized, now, calls, raisedOut,
                   closeCalls, interrupts, everRaised, quitInIdle, intInIdle,
                   failure, seen, audio, watch, hist>>

\* main, lines 242-244: rover.close(), then main leaves
FinallyClose ==
    /\ pc = "closing"
    /\ close
    /\ pc' = "exit"
    /\ result' = pending
    /\ UNCHANGED <<rover, handler, pending, quit, toggleVars, video_enabled,
                   pcm_file, pcm_lines, finalized, now, calls, raisedOut,
                   cleanupCalls, destroyCalls, interrupts, everRaised,
                   quitInIdle, intInIdle, failure, seen, audio, watch, hist>>

\* SIGINT reaches the main thread.  Without _signal_handler installed Python
\* raises KeyboardInterrupt at the point reached; with it, _signal_handler
\* runs there and sys.exit(0) raises SystemExit.  Inside main's try block
\* KeyboardInterrupt is caught (line 233) and SystemExit is not; both pass
\* through the finally block, and either raised inside the finally block
\* leaves it at once.
Interrupt ==
    /\ pc # "exit"
    /\ interrupts' = interrupts + 1
    /\ intInIdle' = (intInIdle \/ pc = "loop")
    /\ IF handler /\ HandlerSeesRover
       THEN \* _signal_handler, lines 44-46
            /\ cleanup
            /\ close
       ELSE UNCHANGED <<cleanupCalls, pcm_file, destroyCalls, vehicle,
                        closeCalls>>
    /\ IF pc \in {"finally", "closing"}
       THEN /\ pc' = "exit"
            /\ result' = IF handler THEN "sysexit" ELSE "kbint"
            /\ UNCHANGED pending
       ELSE /\ pc' = "finally"
            /\ pending' = IF handler THEN "sysexit" ELSE "ret0"
            /\ UNCHANGED result
    /\ UNCHANGED <<rover, handler, quit, toggleVars, video_enabled, pcm_lines,
                   finalized, now, calls, raisedOut, everRaised, quitInIdle,
                   failure, seen, audio, watch, hist>>

\* ---------------------------------------------------- garbage collector
\* __del__: the PS3Rover object is finalized, at most once, at some time after
\* main no longer holds it
Del ==
    /\ vehicle # "unopened"
    /\ ~finalized
    /\ pc = "exit" \/ (pc = "finally" /\ ~rover)
    /\ finalized' = TRUE
    /\ cleanup
    /\ UNCHANGED <<mainVars, vehicle, quit, toggleVars, video_enabled,
                   pcm_lines, now, calls, raisedOut, closeCalls, interrupts,
                   everRaised, quitInIdle, intInIdle, failure, seen, audio,
                   watch, hist>>

\* ------------------------------------------------------ specifications
\* The button presses and the clock, on a rover that was constructed without
\* a video window and is left running: processVideo sees every combination of
\* the two toggle buttons, of the delay between its two clock reads and of
\* its routines raising
\* which of the lights and stealth routines raise if called (both raising
\* acts as the first one called raising)
Failures == {<<FALSE, FALSE>>, <<TRUE, FALSE>>, <<FALSE, TRUE>>}

NextToggle ==
    \/ SuperInit(TRUE)
    \/ InitRest(TRUE, FALSE, FALSE)
    \/ InstallHandler
    \/ IdleLoop
    \/ ClockAdvance
    \/ \E lb \in BOOLEAN, sb \in BOOLEAN, jitter \in 0..MaxJitter,
          fail \in Failures :
          processVideo(lb, sb, FALSE, FALSE, 0, 0, jitter, fail[1], fail[2],
                       "none", -1)

SpecToggle == Init /\ [][NextToggle]_vars

\* The life of the process: construction with its failures, the idle loop,
\* SIGINT, the finally block and __del__, with the media thread delivering
\* frames (the lights button, a raising routine, every decode result and key)
\* and audio batches of one sample.  The clock stands still.
\* the lights button with whether its routine raises
Presses == {<<FALSE, FALSE>>, <<TRUE, FALSE>>, <<TRUE, TRUE>>}
\* the decode result with the key that waitKey returns after an image
Shown == {<<"none", -1>>, <<"error", -1>>} \cup {<<"image", k>> : k \in KeyCodes}

Next ==
    \/ \E connects \in BOOLEAN : SuperInit(connects)
    \/ \E joystick \in BOOLEAN, window \in BOOLEAN, file \in BOOLEAN :
          InitRest(joystick, window, file)
    \/ InstallHandler
    \/ IdleLoop
    \/ FinallyCleanup
    \/ FinallyClose
    \/ Interrupt
    \/ Del
    \/ \E press \in Presses, shown \in Shown :
          processVideo(press[1], FALSE, FALSE, FALSE, 0, 0, 0, press[2],
                       FALSE, shown[1], shown[2])
    \/ processAudio(<<MaxSample>>, 0)

Spec == Init /\ [][Next]_vars

\* the main thread is never blocked for good: time.sleep(0.01) returns and
\* the statements of the finally block run
SpecLive ==
    /\ Spec
    /\ WF_vars(IdleLoop)
    /\ WF_vars(FinallyCleanup)
    /\ WF_vars(FinallyClose)

\* The audio batches, on a rover constructed without a video window, its
\* capture file opened or not, and shut down by SIGINT: processAudio sees
\* every batch of up to two samples and every write of it failing
Samples == 1..MaxSample
Batches == {<<>>} \cup {<<a>> : a \in Samples}
               \cup {<<a, b>> : a \in Samples, b \in Samples}

NextAudio ==
    \/ SuperInit(TRUE)
    \/ \E file \in BOOLEAN : InitRest(TRUE, FALSE, file)
    \/ InstallHandler
    \/ IdleLoop
    \/ Interrupt
    \/ FinallyCleanup
    \/ FinallyClose
    \/ \E samples \in Batches, failAt \in 0..2 : processAudio(samples, failAt)

SpecAudio == Init /\ [][NextAudio]_vars

\* The camera buttons and the sticks, on a rover constructed with or without
\* a video window: processVideo sees every combination of the two camera
\* buttons, each with readings of the sticks, with the toggle buttons of
\* Toggles and a frame that decodes or not.  The clock stands still.
\* the lights and stealth buttons, with their routines raising if called
Toggles ==
    {<<FALSE, FALSE, FALSE, FALSE>>,
     <<TRUE, FALSE, FALSE, FALSE>>, <<TRUE, FALSE, TRUE, FALSE>>,
     <<FALSE, TRUE, FALSE, FALSE>>, <<FALSE, TRUE, FALSE, TRUE>>,
     <<TRUE, TRUE, FALSE, FALSE>>}
\* the camera buttons up and down with the readings of axes 1 and 3
Sticks ==
    {<<FALSE, FALSE, 0, 0>>, <<FALSE, FALSE, -1, 1>>, <<TRUE, FALSE, -2, 2>>,
     <<FALSE, TRUE, 1, -2>>, <<TRUE, TRUE, 2, -1>>}

NextDrive ==
    \/ SuperInit(TRUE)
    \/ \E window \in BOOLEAN : InitRest(TRUE, window, FALSE)
    \/ InstallHandler
    \/ IdleLoop
    \/ \E tg \in Toggles, st \in Sticks, frame \in {"image", "none"} :
          processVideo(tg[1], tg[2], st[1], st[2], st[3], st[4], 0, tg[3],
                       tg[4], frame, -1)

SpecDrive == Init /\ [][NextDrive]_vars

\* The sticks, on a rover constructed with or without a video window:
\* processVideo sees every pair of readings of axes 1 and 3, no button held
NextAxis ==
    \/ SuperInit(TRUE)
    \/ \E window \in BOOLEAN : InitRest(TRUE, window, FALSE)
    \/ InstallHandler
    \/ IdleLoop
    \/ \E a1 \in AxisReadings, a3 \in AxisReadings :
          processVideo(FALSE, FALSE, FALSE, FALSE, a1, a3, 0, FALSE, FALSE,
                       "none", -1)

SpecAxis == Init /\ [][NextAxis]_vars

\* -------------------------------------------------------------- claims
\* the calls of f among the calls of the latest processVideo
CallsOf(f) == SelectSeq(calls, LAMBDA c : c.f = f)

\* |n|
Abs(n) == IF n < 0 THEN -n ELSE n
\* the flag of the watched control
WatchedFlag == IF watch = "lights" THEN lights_are_on ELSE stealth_is_on

\* C1 as stated: while a button is held across evaluations each less than
\* MIN_BUTTON_LAG_SEC after the one before, however many, the flag has
\* flipped at most once and its routines were called at most once
C1_HeldFlipsOnce ==
    (hist.held /\ hist.spaced) => (hist.holdFlips <= 1 /\ hist.holdActs <= 1)

\* C1 as amended: while a button is held across evaluations that all fall
\* within MIN_BUTTON_LAG_SEC of the first of them, the flag has flipped at
\* most once and its routines were called at most once
C1_HeldWithinLagFlipsOnce ==
    (hist.held /\ hist.lastPress - hist.first <= MIN_BUTTON_LAG_SEC)
        => (hist.holdFlips <= 1 /\ hist.holdActs <= 1)

\* a hold of several evaluations spanning exactly MIN_BUTTON_LAG_SEC, with
\* its one flip
C1_Witness ==
    /\ hist.held
    /\ hist.spaced
    /\ hist.lastPress - hist.first = MIN_BUTTON_LAG_SEC
    /\ hist.holdFlips = 1

\* the case of C2: the other button never seen pressed, every press of this
\* one seen on one tick only, n presses so far and, of two, the second more
\* than MIN_BUTTON_LAG_SEC after the first
TwoPressCase(n) ==
    /\ ~hist.otherPressed
    /\ hist.singles
    /\ hist.presses = n
    /\ n = 2 => hist.pressGap > MIN_BUTTON_LAG_SEC

\* what C2 says of the case: one flip and one call per press, on_routine
\* then off_routine, the flag back at its initial value after the second
TwoPressResult ==
    /\ hist.presses = 1 =>
          /\ hist.flips = 1 /\ hist.onCalls = 1 /\ hist.offCalls = 0
          /\ WatchedFlag = TRUE
    /\ hist.presses = 2 =>
          /\ hist.flips = 2 /\ hist.onCalls = 1 /\ hist.offCalls = 1
          /\ WatchedFlag = FALSE

C3_IndependentDebounce ==
    (hist.due /\ ~raisedOut /\ ~everRaised)
        => (hist.lastFlip = hist.lastPress /\ hist.flips > 0)

\* C4: while the routines return normally, each flag equals the latest
\* command the vehicle took for it (none: false), and flips and commands pair
\* up one to one
C4_FlagMatchesCommand ==
    ~everRaised =>
        /\ WatchedFlag = (hist.cmd = "on")
        /\ hist.flips = hist.onCalls + hist.offCalls

C4_Witness == ~everRaised /\ hist.flips = 2 /\ hist.cmd = "off"

\* C5: two successive flips of a flag are evaluated more than
\* MIN_BUTTON_LAG_SEC apart
C5_FlipsApart ==
    [][(hist'.flips > hist.flips /\ hist.flips > 0)
          => hist'.lastFlip - hist.lastFlip > MIN_BUTTON_LAG_SEC]_vars

C5_Witness == hist.flips = 2 /\ hist.otherPressed /\ hist.presses >= 3

\* C6: quit is false once the object is constructed, and no step of any
\* thread sets it back from true to false
C6_QuitMonotone ==
    [][/\ quit => quit'
       /\ (pc = "ctor" /\ pc' = "banner") => ~quit']_vars

C6_Witness ==
    /\ quit
    /\ pc = "exit"
    /\ interrupts > 0
    /\ finalized
    /\ pcm_lines # <<>>
    /\ ~raisedOut /\ calls # <<>>

\* C7: once main has left, on any exit path of a process that opened the
\* vehicle connection, cleanup() has been called exactly once
C7_CleanupOnce ==
    (pc = "exit" /\ vehicle # "unopened") => cleanupCalls = 1

\* main has executed a return statement
MainReturned == pc = "exit" /\ result \in {"ret0", "ret1"}

\* C8: a quit key seen while main idles leads to the end of the idle loop,
\* and once main has returned close() has been called exactly once
C8_QuitShutsDown ==
    /\ quitInIdle ~> (pc # "loop")
    /\ [](quitInIdle /\ MainReturned => closeCalls = 1 /\ vehicle = "closed")

C8_Witness == quitInIdle /\ MainReturned /\ interrupts = 0

\* the capture file is closed (if it was opened) and the windows destroyed
\* (if a window was made)
CleanedUp ==
    /\ pcm_file \in {"none", "closed"}
    /\ video_enabled => destroyCalls >= 1

\* C9: after one SIGINT, received in the idle loop, the process ends with the
\* capture file closed, the display released and close() called exactly once
C9_InterruptShutsDown ==
    (interrupts = 1 /\ intInIdle /\ pc = "exit")
        => (CleanedUp /\ cleanupCalls >= 1 /\ closeCalls = 1
            /\ vehicle = "closed")

C9_Witness ==
    /\ interrupts = 1 /\ intInIdle /\ pc = "exit" /\ ~quit
    /\ video_enabled /\ pcm_file = "closed"

\* C10: when main leaves after the vehicle connection was opened, with no
\* SIGINT involved, close() has been called
C10_AlwaysClosed ==
    (pc = "exit" /\ vehicle # "unopened" /\ interrupts = 0)
        => (closeCalls >= 1 /\ vehicle = "closed")

\* C11: the exit status is 0 when the run ends by a clean quit (the idle loop
\* saw quit set, no SIGINT), non-zero when start-up failed for want of a
\* controller or by an exception out of the constructor; after a start-up
\* failure the handler is not installed and the idle loop is not entered
C11_ExitStatus ==
    /\ (pc = "exit" /\ quit /\ interrupts = 0) => ExitStatus(result) = 0
    /\ (pc = "exit" /\ failure # "none") => ExitStatus(result) # 0
    /\ failure # "none" =>
          (~handler /\ ~rover /\ pc \in {"finally", "exit"})

\* main has returned after PS3Rover() found no controller
C11_Witness ==
    pc = "exit" /\ failure = "joystick" /\ result = OnRuntimeError

\* what C12 says of the direction d computed from the reading raw
AxisDirection(raw, d) ==
    /\ d = 0 <=> Abs(raw) <= MIN_AXIS_ABSVAL
    /\ raw < -MIN_AXIS_ABSVAL => d = 1
    /\ raw > MIN_AXIS_ABSVAL => d = -1

\* C12: the direction that _get_axis_value hands to setTreads is 0 if and
\* only if the reading is within the dead zone, its edges included, 1 for a
\* reading below it and -1 for a reading above it, and two ticks with the
\* same reading give the same direction
C12_AxisDirection ==
    /\ [](\A i \in 1..Len(CallsOf("setTreads")) :
            /\ AxisDirection(seen.axis1, CallsOf("setTreads")[i].a[1])
            /\ AxisDirection(seen.axis3, CallsOf("setTreads")[i].a[2]))
    /\ [][(/\ calls # <<>>
           /\ calls' # <<>>
           /\ seen'.axis1 = seen.axis1
           /\ seen'.axis3 = seen.axis3) => calls' = calls]_vars

\* a tick with axis 1 on the upper edge of the dead zone and axis 3 below it
C12_Witness ==
    /\ seen.axis1 = MIN_AXIS_ABSVAL
    /\ seen.axis3 < -MIN_AXIS_ABSVAL
    /\ CallsOf("setTreads") = <<Call("setTreads", <<0, 1>>)>>

\* the on/off routines of the two controls
Routines == {RoutineName(c, call) : c \in Controls, call \in {"on", "off"}}

\* the latest processVideo ended in the call of an on/off routine, its
\* button held: that routine raised
RoutineRaised ==
    /\ calls # <<>>
    /\ calls[Len(calls)].f \in Routines
    /\ seen.lights \/ seen.stealth

\* no display update was made by the latest processVideo
NoDisplay == CallsOf("imshow") = <<>> /\ CallsOf("waitKey") = <<>>

Lines(samples) == [i \in 1..Len(samples) |-> ToString(samples[i])]

\* C14: while no write has failed the content of the capture file is the
\* samples of all batches that arrived, in order, one per line, and changes
\* only as a batch arrives
C14_FileIsBatches ==
    /\ []((pcm_file \in {"open", "closed"} /\ ~audio.failed)
            => pcm_lines = Lines(audio.arrived))
    /\ [][pcm_lines' # pcm_lines => audio'.arrived # audio.arrived]_vars

\* two different samples arrived and are in the open file in their order
C14_Witness ==
    /\ pcm_file = "open"
    /\ ~audio.failed
    /\ Len(audio.arrived) = 2
    /\ audio.arrived[1] > audio.arrived[2]
    /\ pcm_lines = Lines(audio.arrived)

\* C15: processAudio never lets an exception out, whether the capture file
\* failed to open, a write fails, or the batch arrives after cleanup() closed
\* the file and before the connection is closed
C15_AudioNeverRaises == ~audio.raised

\* what C16 says of the camera command: up first, then down, else stop
CameraCommanded ==
    CallsOf("moveCameraVertical") =
        <<Call("moveCameraVertical",
               <<IF seen.up THEN 1 ELSE IF seen.down THEN -1 ELSE 0>>)>>

VehicleCalls == SelectSeq(calls, LAMBDA c : c.f \notin {"imshow", "waitKey"})
WindowCalls == SelectSeq(calls, LAMBDA c : c.f \in {"imshow", "waitKey"})

\* C17: a tick on which no routine raises calls, in this order, the routine
\* of a toggle that flips (the lights evaluated before stealth: with both
\* buttons due it is the lights that flip), moveCameraVertical once,
\* setTreads once with the directions of this tick's readings, and only then
\* the window, if at all; the calls to the vehicle do not depend on the
\* window or the frame
C17_TickOrder ==
    (calls # <<>> /\ ~raisedOut) =>
        LET cmds == VehicleCalls
            n == Len(cmds)
        IN  /\ calls = cmds \o WindowCalls
            /\ n \in {2, 3}
            /\ n = 3 => cmds[1].f \in Routines
            /\ (n = 3 /\ seen.lights) =>
                  cmds[1].f \in {"turnLightsOn", "turnLightsOff"}
            /\ (n = 3 /\ ~seen.lights) =>
                  (seen.stealth
                   /\ cmds[1].f \in {"turnStealthOn", "turnStealthOff"})
            /\ CameraCommanded
            /\ cmds[n-1].f = "moveCameraVertical"
            /\ cmds[n].f = "setTreads"
            /\ cmds[n].a \in {-1, 0, 1} \X {-1, 0, 1}
            /\ AxisDirection(seen.axis1, cmds[n].a[1])
            /\ AxisDirection(seen.axis3, cmds[n].a[2])
            /\ WindowCalls \in {<<>>, DisplayCalls("image")}
            /\ WindowCalls # <<>> <=> (video_enabled /\ seen.frame = "image")

\* with both toggle buttons held and no window the tick has turned the
\* lights on, raised the camera and set the treads from its readings
C17_Witness ==
    /\ ~video_enabled
    /\ seen.lights
    /\ seen.stealth
    /\ seen.axis1 < 0
    /\ calls = <<Call("turnLightsOn", <<>>),
                 Call("moveCameraVertical", <<1>>),
                 Call("setTreads", <<1, -1>>)>>

\* C18: an evaluation that finds the button not held, or held no more than
\* MIN_BUTTON_LAG_SEC after last_button_time, returns the flag as it was,
\* leaves last_button_time as it was and calls neither routine
C18_QuietKeeps == hist.quiet => hist.kept

\* the button held exactly MIN_BUTTON_LAG_SEC after last_button_time, after
\* a flip: nothing done
C18_Witness ==
    /\ hist.held
    /\ hist.lastPress - last_button_time = MIN_BUTTON_LAG_SEC
    /\ hist.flips >= 1
    /\ hist.quiet
    /\ hist.kept

\* the key poll of the latest processVideo was made and saw ESC
EscObserved == CallsOf("waitKey") # <<>> /\ KeyByte(seen.key) = ESC

\* C19: a tick sets quit exactly when the window is enabled, its frame
\* decoded and its key poll saw ESC; without the window quit is never set
C19_QuitByEsc ==
    /\ [](EscObserved => quit)
    /\ [][(~quit /\ quit') =>
            (video_enabled /\ seen'.frame = "image" /\ EscObserved')]_vars
    /\ [](~video_enabled => ~quit)

\* the tick that polled ESC set quit, while the lights button was held
C19_Witness ==
    /\ video_enabled
    /\ seen.frame = "image"
    /\ seen.key = ESC
    /\ seen.lights
    /\ EscObserved
    /\ quit

\* the latest processVideo ended in the call of this routine of the watched
\* control
EndedIn(call) ==
    calls # <<>> /\ calls[Len(calls)].f = RoutineName(watch, call)

\* C20: when the routine called by a qualifying evaluation raises, the tick
\* raises out of processVideo, the flag is what it was before (off after a
\* failed on_routine, on after a failed off_routine), last_button_time is
\* the time of that evaluation, and the tick has moved neither camera nor
\* treads
C20_RaisePropagates ==
    /\ hist.raised => raisedOut
    /\ \A call \in {"on", "off"} :
          (raisedOut /\ EndedIn(call)) =>
              /\ hist.raised
              /\ WatchedFlag = (call = "off")
              /\ last_button_time = hist.lastPress
              /\ last_button_time > hist.lastFlip
              /\ CallsOf("moveCameraVertical") = <<>>
              /\ CallsOf("setTreads") = <<>>
    /\ raisedOut => (VehicleCalls = calls /\ Len(calls) \in {1, 2}
                     /\ calls[Len(calls)].f \in Routines)

\* the off_routine of the watched control raised: the control is still on
C20_Witness ==
    /\ raisedOut
    /\ hist.raised
    /\ EndedIn("off")
    /\ WatchedFlag
    /\ hist.otherPressed

====
